---- MODULE Spec2Model ----
(***************************************************************************)
(* The PID controller of src/main/flight/pid.c: pidInitConfig, pidLevel,   *)
(* accelerationLimit, pidController with its crash detection and recovery  *)
(* state machine, pidResetITerm and pidStabilisationState.                 *)
(*                                                                         *)
(* Numbers.  The C code computes in float.  The model computes in          *)
(* integers and draws its inputs from values for which every product and   *)
(* quotient of a tick is an integer, so that no rounding is involved:      *)
(*   - times are microseconds, as in the code; dT and deltaT, which the    *)
(*     code holds in seconds (us * 0.000001f), are kept as the number of   *)
(*     microseconds and every use divides by UsPerSecond;                  *)
(*   - motorMixRange and tpaFactor take the values 0 and 1 (0.0 and 1.0),  *)
(*     rcDeflection the values -1, 0, 1;                                   *)
(*   - horizonLevelStrength, a ratio in [0,1], is held in 1/StrengthOne.   *)
(* In the profiles under which pidController runs the filter cutoffs are   *)
(* zero (dterm_lpf_hz, dterm_notch_hz, yaw_lpf_hz), so that pidInitFilters *)
(* selects the null filter for the three stages.                           *)
(***************************************************************************)
EXTENDS Integers, FiniteSets, Sequences, TLC

\* ------------------------------------------------------------------ axes
FD_ROLL == 0
FD_PITCH == 1
FD_YAW == 2
Axes == {FD_ROLL, FD_PITCH, FD_YAW}
RollPitch == {FD_ROLL, FD_PITCH}

\* ------------------------------------------------------------ maths helpers
ABS(x) == IF x < 0 THEN -x ELSE x
MIN(a, b) == IF a < b THEN a ELSE b
MAX(a, b) == IF a > b THEN a ELSE b
constrainf(amt, low, high) ==
    IF amt < low THEN low ELSE IF amt > high THEN high ELSE amt

\* C division of a by b > 0 (rounds toward zero; exact on the model's inputs).
Quot(a, b) == IF a >= 0 THEN a \div b ELSE -((-a) \div b)

\* cmpTimeUs(a, b): (timeDelta_t)(a - b); the model's times stay far from 2^31.
cmpTimeUs(a, b) == a - b

UsPerSecond == 1000000
UsPerMs == 1000
StrengthOne == 1000

\* --------------------------------------------------------------- bounds
\* ticks are taken while currentTimeUs <= MaxTimeMs * UsPerMs
MaxTimeMs == 5
\* a tick comes 1 .. MaxTickMs loop periods after the previous one
MaxTickMs == 2

\* ------------------------------------------------------------ the profile
PID_CRASH_RECOVERY_OFF == 0
PID_CRASH_RECOVERY_ON == 1
PID_CRASH_RECOVERY_BEEP == 2

\* The gain scale constants of pid.h, in the model's output unit.
PTERM_SCALE == 1
ITERM_SCALE == 250
DTERM_SCALE == 1

\* A pidProfile_t, with the fields pid.c reads.  Values are small; the level
\* gains are multiples of 10 (levelGain = P / 10.0f).
BaseProfile ==
    [ P |-> [a \in Axes |-> 1],
      I |-> [a \in Axes |-> 4],
      D |-> [a \in Axes |-> 1],
      levelP |-> 10, levelI |-> 20, levelD |-> 75,
      dtermSetpointWeight |-> 0,
      setpointRelaxRatio |-> 100,
      horizon_tilt_effect |-> 75,
      horizon_tilt_expert_mode |-> FALSE,
      levelAngleLimit |-> 30,
      rateAccelLimit |-> 0,
      yawRateAccelLimit |-> 0,
      itermWindupPointPercent |-> 50,
      itermLimit |-> 6,
      crash_time |-> 3,
      crash_delay |-> 0,
      crash_recovery_angle |-> 10,
      crash_recovery_rate |-> 2,
      crash_dthreshold |-> 50,
      crash_gthreshold |-> 2,
      crash_setpoint_threshold |-> 3,
      crash_limit_yaw |-> 2,
      crash_recovery |-> PID_CRASH_RECOVERY_OFF,
      yaw_lpf_hz |-> 0,
      dterm_lpf_hz |-> 0,
      dterm_notch_hz |-> 0,
      dterm_notch_cutoff |-> 0,
      dterm_filter_type |-> "FILTER_BIQUAD" ]

\* pidSetTargetLooptime: dT = targetPidLooptime * 0.000001f, held in microseconds.
dTUs(looptime) == looptime

\* x * dT, for dT held in microseconds
TimesDT(x, looptime) == Quot(x * dTUs(looptime), UsPerSecond)

\* pidInitConfig: the statics derived from the profile and dT.
pidInitConfig(p, looptime) ==
    [ Kp |-> [a \in Axes |-> PTERM_SCALE * p.P[a]],
      Ki |-> [a \in Axes |-> ITERM_SCALE * p.I[a]],
      Kd |-> [a \in Axes |-> DTERM_SCALE * p.D[a]],
      dtermSetpointWeight |-> Quot(p.dtermSetpointWeight, 127),
      relaxFactor |-> Quot(100, p.setpointRelaxRatio),
      levelGain |-> Quot(p.levelP, 10),
      horizonGain |-> Quot(p.levelI, 10),
      horizonTransition |-> p.levelD,
      horizonTiltExpertMode |-> p.horizon_tilt_expert_mode,
      horizonCutoffDegrees |-> Quot((175 - p.horizon_tilt_effect) * 18, 10),
      horizonFactorRatio |-> 100 - p.horizon_tilt_effect,
      maxVelocity |-> [a \in Axes |->
          IF a = FD_YAW THEN TimesDT(p.yawRateAccelLimit * 100, looptime)
                        ELSE TimesDT(p.rateAccelLimit * 100, looptime)],
      ITermWindupPointInv |-> Quot(100, 100 - p.itermWindupPointPercent),
      crashTimeLimitUs |-> p.crash_time * 1000,
      crashTimeDelayUs |-> p.crash_delay * 1000,
      crashRecoveryAngleDeciDegrees |-> p.crash_recovery_angle * 10,
      crashRecoveryRate |-> p.crash_recovery_rate,
      crashGyroThreshold |-> p.crash_gthreshold,
      crashDtermThreshold |-> p.crash_dthreshold,
      crashSetpointThreshold |-> p.crash_setpoint_threshold,
      crashLimitYaw |-> p.crash_limit_yaw,
      itermLimit |-> p.itermLimit ]

\* ------------------------------------------------------------ pidInitFilters
\* const uint32_t pidFrequencyNyquist = (1.0f / dT) / 2, the float quotient
\* truncated to an integer.  The loop times for which the model evaluates it
\* (PidLooptimes) are those whose dT is a power of two in seconds, for which
\* the float quotient is exact.
pidFrequencyNyquist(looptime) == Quot(Quot(UsPerSecond, dTUs(looptime)), 2)

\* lines 200-209: the notch centre frequency that is used
dTermNotchHz(p, looptime) ==
    IF p.dterm_notch_hz <= pidFrequencyNyquist(looptime)
    THEN p.dterm_notch_hz
    ELSE IF p.dterm_notch_cutoff < pidFrequencyNyquist(looptime)
         THEN pidFrequencyNyquist(looptime)
         ELSE 0

\* lines 211-221: the D term notch
dtermNotchSelect(p, looptime) ==
    IF dTermNotchHz(p, looptime) # 0 /\ p.dterm_notch_cutoff # 0
    THEN "biquadFilterApply"
    ELSE "nullFilterApply"

\* lines 223-252: the D term low-pass
dtermLpfSelect(p, looptime) ==
    IF p.dterm_lpf_hz = 0 \/ p.dterm_lpf_hz > pidFrequencyNyquist(looptime)
    THEN "nullFilterApply"
    ELSE CASE p.dterm_filter_type = "FILTER_PT1" -> "pt1FilterApply"
           [] p.dterm_filter_type = "FILTER_BIQUAD" -> "biquadFilterApply"
           [] p.dterm_filter_type = "FILTER_FIR" -> "firFilterDenoiseUpdate"
           [] OTHER -> "nullFilterApply"

\* lines 254-261: the yaw P term low-pass
ptermYawSelect(p, looptime) ==
    IF p.yaw_lpf_hz = 0 \/ p.yaw_lpf_hz > pidFrequencyNyquist(looptime)
    THEN "nullFilterApply"
    ELSE "pt1FilterApply"

\* pidInitFilters: the three filter functions, for targetPidLooptime = looptime
pidInitFilters(p, looptime) ==
    IF looptime = 0
    THEN [ dtermNotch |-> "nullFilterApply",
           dtermLpf |-> "nullFilterApply",
           ptermYaw |-> "nullFilterApply" ]
    ELSE [ dtermNotch |-> dtermNotchSelect(p, looptime),
           dtermLpf |-> dtermLpfSelect(p, looptime),
           ptermYaw |-> ptermYawSelect(p, looptime) ]

\* ------------------------------------------------------------ the state
VARIABLES
    \* pid.c statics
    pidProfile,              \* the profile the caller passes to pidController
    targetPidLooptime,       \* us; dT = targetPidLooptime * 0.000001f
    cfg,                     \* the statics pidInitConfig derives (Kp .. itermLimit)
    dtermNotchFilterApplyFn, \* the filter functions pidInitFilters selects
    dtermLpfApplyFn,
    ptermYawFilterApplyFn,
    pidStabilisationEnabled,
    itermAccelerator,
    inCrashRecoveryMode,
    crashDetectedAtUs,       \* static of pidController
    previousTimeUs,          \* static of pidController
    previousRateError,       \* static of pidController, roll and pitch
    previousSetpoint,        \* static of accelerationLimit
    axisPID_P, axisPID_I, axisPID_D, axisPIDSum,
    \* what pidController reads from its collaborators
    beeper,                  \* BEEP_ON / BEEP_OFF
    gyroADCf,                \* gyro.gyroADCf[axis]
    gyroOverflow,            \* gyroOverflowDetected()
    setpointRate,            \* getSetpointRate(axis)
    rcDeflection,            \* getRcDeflection(axis); getRcDeflectionAbs is its magnitude
    attitude,                \* attitude.raw[axis], decidegrees, roll and pitch
    angleTrim,               \* angleTrim->raw[axis]
    accSensor,               \* sensors(SENSOR_ACC)
    armed,                   \* ARMING_FLAG(ARMED)
    flightModeFlags,         \* subset of {"ANGLE", "HORIZON"}
    motorMixRange,           \* getMotorMixRange()
    outputSaturated,         \* mixerIsOutputSaturated(axis, errorRate), per axis
    tpaFactor,               \* getThrottlePIDAttenuation()
    \* observation of the last call
    lastOp,                  \* the operation that produced this state
    tick,                    \* what the last pidController call saw and did
    watch                    \* on: a recovery was entered at the tick of time `at`, and
                             \* in each of the `ticks` ticks since the motors were armed,
                             \* the exit condition not met, the time limit not reached

filterVars == << dtermNotchFilterApplyFn, dtermLpfApplyFn, ptermYawFilterApplyFn >>
progVars == << pidProfile, targetPidLooptime, cfg, filterVars, pidStabilisationEnabled,
               itermAccelerator, inCrashRecoveryMode, crashDetectedAtUs,
               previousTimeUs, previousRateError, previousSetpoint,
               axisPID_P, axisPID_I, axisPID_D, axisPIDSum, beeper >>
envVars == << gyroADCf, gyroOverflow, setpointRate, rcDeflection, attitude,
              angleTrim, accSensor, armed, flightModeFlags, motorMixRange,
              outputSaturated, tpaFactor >>
vars == << progVars, envVars, lastOp, tick, watch >>

\* ------------------------------------------------------------ leveling
\* calcHorizonLevelStrength, in 1/StrengthOne
calcHorizonLevelStrength ==
    LET currentInclination ==
            Quot(MAX(ABS(attitude[FD_ROLL]), ABS(attitude[FD_PITCH])), 10)
        cutoff == cfg.horizonCutoffDegrees
    IN  IF cfg.horizonTiltExpertMode
        THEN IF cfg.horizonTransition > 0 /\ cutoff > 0
             THEN constrainf(Quot((cutoff - currentInclination) * StrengthOne, cutoff),
                             0, StrengthOne)
             ELSE 0
        ELSE IF cutoff > 0
             THEN constrainf(Quot((cutoff - currentInclination) * 2 * StrengthOne, cutoff),
                             0, StrengthOne)
             ELSE 0

\* pidLevel (built without USE_GPS: no GPS_angle), with FLIGHT_MODE(ANGLE_MODE)
\* read from `flags`
pidLevelIn(flags, axis, currentPidSetpoint) ==
    LET limit == pidProfile.levelAngleLimit
        angle == constrainf(limit * rcDeflection[axis], -limit, limit)
        errorAngle == angle - Quot(attitude[axis] - angleTrim[axis], 10)
        horizonLevelStrength == calcHorizonLevelStrength
        racemodeInclination ==
            Quot(MAX(ABS(attitude[FD_ROLL]), ABS(attitude[FD_PITCH])), 10)
        blended == currentPidSetpoint
                   + Quot(errorAngle * cfg.horizonGain * horizonLevelStrength, StrengthOne)
    IN  IF "ANGLE" \in flags
        THEN errorAngle * cfg.levelGain
        ELSE IF cfg.horizonTiltExpertMode
             THEN blended
             ELSE IF racemodeInclination < limit
                  THEN errorAngle * cfg.horizonGain
                  ELSE blended

\* pidLevel under the flight mode flags in force
pidLevel(axis, currentPidSetpoint) ==
    pidLevelIn(flightModeFlags, axis, currentPidSetpoint)

\* ------------------------------------------------------------ accelerationLimit
\* mutant of accelerationLimit: only a rising setpoint is limited
accelerationLimit_RisingOnly(previous, maxVel, currentPidSetpoint) ==
    LET currentVelocity == currentPidSetpoint - previous
    IN  IF currentVelocity > maxVel THEN previous + maxVel ELSE currentPidSetpoint

\* the accepted setpoint, which is also stored in previousSetpoint[axis]
accelerationLimit(previous, maxVel, currentPidSetpoint) ==
    LET currentVelocity == currentPidSetpoint - previous
    IN  IF ABS(currentVelocity) > maxVel
        THEN IF currentVelocity > 0 THEN previous + maxVel ELSE previous - maxVel
        ELSE currentPidSetpoint

\* ------------------------------------------------------------ pidController
\* Dynamic i component: MIN((1.0f - motorMixRange) * ITermWindupPointInv, 1.0f)
\* * dT * itermAccelerator, with dT in microseconds
dynCi ==
    MIN((1 - motorMixRange) * cfg.ITermWindupPointInv, 1)
        * dTUs(targetPidLooptime) * itermAccelerator

\* Dynamic d component: 2-DOF only in rate mode
dynCd == IF flightModeFlags # {} THEN 0 ELSE cfg.dtermSetpointWeight

\* mutant of crashRecoveryActive: the grace delay is not waited for
crashRecoveryActive_NoDelay(inCrash, detectedAt, currentTimeUs) ==
    inCrash

\* line 458: in recovery and past the grace delay
crashRecoveryActive(inCrash, detectedAt, currentTimeUs) ==
    inCrash /\ cmpTimeUs(currentTimeUs, detectedAt) > cfg.crashTimeDelayUs

\* mutant of crashRecoveryOver: the time limit is not looked at
crashRecoveryOver_NoTimeLimit(detectedAt, currentTimeUs) ==
    /\ motorMixRange < 1
    /\ ABS(gyroADCf[FD_ROLL]) < cfg.crashRecoveryRate
    /\ ABS(gyroADCf[FD_PITCH]) < cfg.crashRecoveryRate
    /\ ABS(gyroADCf[FD_YAW]) < cfg.crashRecoveryRate

\* lines 476-480: time limit passed, or mix no longer saturated and rates low
crashRecoveryOver(detectedAt, currentTimeUs) ==
    \/ cmpTimeUs(currentTimeUs, detectedAt) > cfg.crashTimeLimitUs
    \/ /\ motorMixRange < 1
       /\ ABS(gyroADCf[FD_ROLL]) < cfg.crashRecoveryRate
       /\ ABS(gyroADCf[FD_PITCH]) < cfg.crashRecoveryRate
       /\ ABS(gyroADCf[FD_YAW]) < cfg.crashRecoveryRate

\* lines 483-484: aircraft nearly level
nearlyLevel ==
    /\ ABS(attitude[FD_ROLL] - angleTrim[FD_ROLL]) < cfg.crashRecoveryAngleDeciDegrees
    /\ ABS(attitude[FD_PITCH] - angleTrim[FD_PITCH]) < cfg.crashRecoveryAngleDeciDegrees

\* lines 476-492: recovery ends in this axis' pass
crashRecoveryExit(detectedAt, currentTimeUs) ==
    /\ crashRecoveryOver(detectedAt, currentTimeUs)
    /\ (accSensor => nearlyLevel)

\* mutant of crashDetected: the setpoint is not looked at
crashDetected_NoSetpointCheck(axis, inCrash, delta, errorRate) ==
    /\ motorMixRange >= 1
    /\ ~inCrash
    /\ ABS(delta) > cfg.crashDtermThreshold
    /\ ABS(errorRate) > cfg.crashGyroThreshold

\* lines 530-533: a crash is detected on this axis
crashDetected(axis, inCrash, delta, errorRate) ==
    /\ motorMixRange >= 1
    /\ ~inCrash
    /\ ABS(delta) > cfg.crashDtermThreshold
    /\ ABS(errorRate) > cfg.crashGyroThreshold
    /\ ABS(setpointRate[axis]) < cfg.crashSetpointThreshold

\* mutant of crashFalsePositive: the delay window includes its end
crashFalsePositive_AtDelay(axis, inCrash, detectedAt, currentTimeUs, errorRate) ==
    /\ inCrash
    /\ cmpTimeUs(currentTimeUs, detectedAt) <= cfg.crashTimeDelayUs
    /\ \/ ABS(errorRate) < cfg.crashGyroThreshold
       \/ ABS(setpointRate[axis]) > cfg.crashSetpointThreshold

\* lines 537-538: inside the delay the trigger is gone again
crashFalsePositive(axis, inCrash, detectedAt, currentTimeUs, errorRate) ==
    /\ inCrash
    /\ cmpTimeUs(currentTimeUs, detectedAt) < cfg.crashTimeDelayUs
    /\ \/ ABS(errorRate) < cfg.crashGyroThreshold
       \/ ABS(setpointRate[axis]) > cfg.crashSetpointThreshold

\* lines 528-546: the crash state after the detection block of a roll/pitch pass,
\* as <<inCrashRecoveryMode, crashDetectedAtUs, beeper, entered>>
crashDetection(axis, inCrash, detectedAt, beep, currentTimeUs, delta, errorRate) ==
    IF pidProfile.crash_recovery # PID_CRASH_RECOVERY_OFF /\ ~gyroOverflow
    THEN IF armed
         THEN LET hit == crashDetected(axis, inCrash, delta, errorRate)
                  in1 == inCrash \/ hit
                  at1 == IF hit THEN currentTimeUs ELSE detectedAt
                  abort == crashFalsePositive(axis, in1, at1, currentTimeUs, errorRate)
              IN  << in1 /\ ~abort, at1, IF abort THEN FALSE ELSE beep, hit >>
         ELSE IF inCrash
              THEN << FALSE, detectedAt, FALSE, FALSE >>
              ELSE << inCrash, detectedAt, beep, FALSE >>
    ELSE << inCrash, detectedAt, beep, FALSE >>

\* mutant of crashRecoveryITerm: the accumulated error is kept
crashRecoveryITerm_Kept(active, ITerm) == ITerm

\* lines 473-475, 506: the I component the pass starts from; in recovery the
\* accumulated error is reset
crashRecoveryITerm(active, ITerm) == IF active THEN 0 ELSE ITerm

\* mutant of ITermUpdate: the new value is not constrained to the limit
ITermUpdate_NoLimit(axis, ITerm, errorRate) ==
    LET ITermNew == ITerm + Quot(cfg.Ki[axis] * errorRate * dynCi, UsPerSecond)
    IN  IF outputSaturated[axis] = FALSE \/ ABS(ITermNew) < ABS(ITerm)
        THEN ITermNew
        ELSE ITerm

\* mutant of ITermUpdate: the saturation of the output is not looked at
ITermUpdate_NoAntiWindup(axis, ITerm, errorRate) ==
    constrainf(ITerm + Quot(cfg.Ki[axis] * errorRate * dynCi, UsPerSecond),
               -cfg.itermLimit, cfg.itermLimit)

\* lines 506-512: the I component after this pass
ITermUpdate(axis, ITerm, errorRate) ==
    LET ITermNew == constrainf(ITerm + Quot(cfg.Ki[axis] * errorRate * dynCi, UsPerSecond),
                               -cfg.itermLimit, cfg.itermLimit)
    IN  IF outputSaturated[axis] = FALSE \/ ABS(ITermNew) < ABS(ITerm)
        THEN ITermNew
        ELSE ITerm

\* mutant of pidDisabled: a gyro overflow does not disable the outputs
pidDisabled_StabilisationOnly == ~pidStabilisationEnabled

\* lines 554-559: PID control disabled at zero throttle or on gyro overflow
pidDisabled == ~pidStabilisationEnabled \/ gyroOverflow

\* nullFilterApply
nullFilterApply(input) == input

\* One pass of the loop body (lines 441-559) for `axis`, on the running
\* state s of the call.
AxisStep(s, axis, currentTimeUs) ==
    LET maxVel == cfg.maxVelocity[axis]
        limited == IF maxVel # 0
                   THEN accelerationLimit(s.previousSetpoint[axis], maxVel, setpointRate[axis])
                   ELSE setpointRate[axis]
        prevSp1 == IF maxVel # 0
                   THEN [s.previousSetpoint EXCEPT ![axis] = limited]
                   ELSE s.previousSetpoint
        sp1 == IF "HORIZON" \in flightModeFlags /\ axis # FD_YAW /\ axis # FD_PITCH
               THEN pidLevel(axis, limited) ELSE limited
        sp2 == IF "ANGLE" \in flightModeFlags /\ axis # FD_YAW
               THEN pidLevel(axis, sp1) ELSE sp1
        gyroRate == gyroADCf[axis]
        \* lines 458-493
        active == crashRecoveryActive(s.inCrash, s.detectedAt, currentTimeUs)
        beep1 == IF active /\ pidProfile.crash_recovery = PID_CRASH_RECOVERY_BEEP
                 THEN TRUE ELSE s.beeper
        levelling == active /\ axis # FD_YAW /\ accSensor
        sp3 == IF levelling
               THEN Quot(-(attitude[axis] - angleTrim[axis]), 10) * cfg.levelGain
               ELSE sp2
        errorRate == IF active /\ axis = FD_YAW
                     THEN constrainf(sp2 - gyroRate, -cfg.crashLimitYaw, cfg.crashLimitYaw)
                     ELSE sp3 - gyroRate
        ITerm == crashRecoveryITerm(active, s.I[axis])
        exit == active /\ crashRecoveryExit(s.detectedAt, currentTimeUs)
        in1 == s.inCrash /\ ~exit
        beep2 == IF exit THEN FALSE ELSE beep1
        \* lines 500-512
        P == IF axis = FD_YAW
             THEN nullFilterApply(cfg.Kp[axis] * errorRate * tpaFactor)
             ELSE cfg.Kp[axis] * errorRate * tpaFactor
        I == ITermUpdate(axis, ITerm, errorRate)
        \* lines 515-551
        gyroRateFiltered == nullFilterApply(nullFilterApply(gyroRate))
        rD == dynCd * MIN(ABS(rcDeflection[axis]) * cfg.relaxFactor, 1) * sp3
              - gyroRateFiltered
        delta == IF axis # FD_YAW
                 THEN Quot((rD - s.previousRateError[axis]) * UsPerSecond,
                           currentTimeUs - s.previousTimeUs)
                 ELSE 0
        det == IF axis # FD_YAW
               THEN crashDetection(axis, in1, s.detectedAt, beep2, currentTimeUs,
                                   delta, errorRate)
               ELSE << in1, s.detectedAt, beep2, FALSE >>
        D == IF axis # FD_YAW THEN cfg.Kd[axis] * delta * tpaFactor ELSE s.D[axis]
        Sum == IF axis # FD_YAW THEN P + I + D ELSE P + I
        off == pidDisabled
    IN  [ s EXCEPT
            !.previousSetpoint = prevSp1,
            !.previousRateError = IF axis # FD_YAW
                                  THEN [@ EXCEPT ![axis] = rD] ELSE @,
            !.inCrash = det[1],
            !.detectedAt = det[2],
            !.beeper = det[3],
            !.P = [@ EXCEPT ![axis] = IF off THEN 0 ELSE P],
            !.I = [@ EXCEPT ![axis] = IF off THEN 0 ELSE I],
            !.D = [@ EXCEPT ![axis] = IF off THEN 0 ELSE D],
            !.Sum = [@ EXCEPT ![axis] = IF off THEN 0 ELSE Sum],
            \* observations
            !.accepted = [@ EXCEPT ![axis] = limited],
            !.levelled = [@ EXCEPT ![axis] = sp2],
            !.errorRate = [@ EXCEPT ![axis] = errorRate],
            !.delta = [@ EXCEPT ![axis] = delta],
            !.entered = [@ EXCEPT ![axis] = det[4]],
            !.recovering = [@ EXCEPT ![axis] = active] ]

\* The exit condition of a recovery as the inputs of a tick give it: mix not
\* saturated, all rates low and, with an attitude sensor, the aircraft level.
ExitCondition ==
    /\ motorMixRange < 1
    /\ \A a \in Axes : ABS(gyroADCf[a]) < cfg.crashRecoveryRate
    /\ (accSensor => nearlyLevel)

ZeroAxes == [a \in Axes |-> 0]
NoTick ==
    [ now |-> 0, startCrash |-> FALSE, startDetectedAt |-> 0, startI |-> ZeroAxes,
      startPreviousSetpoint |-> ZeroAxes, startWatch |-> FALSE, startWatchAt |-> 0, startWatchTicks |-> 0,
      accepted |-> ZeroAxes, levelled |-> ZeroAxes,
      errorRate |-> ZeroAxes, delta |-> ZeroAxes,
      entered |-> [a \in Axes |-> FALSE],
      recovering |-> [a \in Axes |-> FALSE] ]

\* pidController(pidProfile, angleTrim, currentTimeUs): the three passes,
\* roll, pitch, yaw, and what the call leaves behind.
pidController(currentTimeUs) ==
    LET s0 == [ inCrash |-> inCrashRecoveryMode,
                detectedAt |-> crashDetectedAtUs,
                beeper |-> beeper,
                previousTimeUs |-> previousTimeUs,
                previousRateError |-> previousRateError,
                previousSetpoint |-> previousSetpoint,
                P |-> axisPID_P, I |-> axisPID_I, D |-> axisPID_D, Sum |-> axisPIDSum,
                accepted |-> ZeroAxes, levelled |-> ZeroAxes,
                errorRate |-> ZeroAxes, delta |-> ZeroAxes,
                entered |-> [a \in Axes |-> FALSE],
                recovering |-> [a \in Axes |-> FALSE] ]
    IN  \E s1 \in { AxisStep(s0, FD_ROLL, currentTimeUs) } :
        \E s2 \in { AxisStep(s1, FD_PITCH, currentTimeUs) } :
        \E s3 \in { AxisStep(s2, FD_YAW, currentTimeUs) } :
        LET hit == \E a \in Axes : s3.entered[a]
            keep == /\ watch.on /\ armed /\ ~ExitCondition
                    /\ cmpTimeUs(currentTimeUs, watch.at) < cfg.crashTimeLimitUs
        IN
        /\ previousTimeUs' = currentTimeUs
        /\ inCrashRecoveryMode' = s3.inCrash
        /\ crashDetectedAtUs' = s3.detectedAt
        /\ beeper' = s3.beeper
        /\ previousRateError' = s3.previousRateError
        /\ previousSetpoint' = s3.previousSetpoint
        /\ axisPID_P' = s3.P
        /\ axisPID_I' = s3.I
        /\ axisPID_D' = s3.D
        /\ axisPIDSum' = s3.Sum
        /\ lastOp' = "pidController"
        /\ tick' = [ now |-> currentTimeUs,
                     startCrash |-> inCrashRecoveryMode,
                     startDetectedAt |-> crashDetectedAtUs,
                     startI |-> axisPID_I,
                     startPreviousSetpoint |-> previousSetpoint,
                     startWatch |-> watch.on,
                     startWatchTicks |-> watch.ticks,
                     startWatchAt |-> watch.at,
                     accepted |-> s3.accepted,
                     levelled |-> s3.levelled,
                     errorRate |-> s3.errorRate,
                     delta |-> s3.delta,
                     entered |-> s3.entered,
                     recovering |-> s3.recovering ]
        /\ watch' = IF hit THEN [ on |-> TRUE, at |-> currentTimeUs, ticks |-> 0 ]
                    ELSE IF keep THEN [ watch EXCEPT !.ticks = @ + 1 ]
                    ELSE [ on |-> FALSE, at |-> 0, ticks |-> 0 ]
        /\ UNCHANGED << filterVars, pidProfile, targetPidLooptime, cfg, pidStabilisationEnabled,
                        itermAccelerator, envVars >>

\* The scheduler calls pidController once per loop period, with a monotonic
\* clock: the call comes k periods after the previous one.
Tick ==
    \E k \in 1..MaxTickMs :
        /\ previousTimeUs + k * UsPerMs <= MaxTimeMs * UsPerMs
        /\ pidController(previousTimeUs + k * UsPerMs)

\* ------------------------------------------------------------ the collaborators
\* Between two calls of pidController the other tasks change what it reads.
Input ==
    /\ lastOp' = "other"
    /\ tick' = NoTick
    /\ UNCHANGED << progVars, watch >>

\* gyro.gyroADCf[axis], written by the gyro task
gyroUpdate(axis, rate) ==
    /\ gyroADCf' = [gyroADCf EXCEPT ![axis] = rate]
    /\ gyroADCf' # gyroADCf
    /\ Input
    /\ UNCHANGED << gyroOverflow, setpointRate, rcDeflection, attitude, angleTrim, accSensor, armed, flightModeFlags, motorMixRange, outputSaturated, tpaFactor >>

\* gyroOverflowDetected(), set and cleared by the gyro task
gyroOverflowUpdate(flag) ==
    /\ gyroOverflow' = flag
    /\ gyroOverflow' # gyroOverflow
    /\ Input
    /\ UNCHANGED << gyroADCf, setpointRate, rcDeflection, attitude, angleTrim, accSensor, armed, flightModeFlags, motorMixRange, outputSaturated, tpaFactor >>

\* getSetpointRate(axis), written by the rc task
setpointUpdate(axis, rate) ==
    /\ setpointRate' = [setpointRate EXCEPT ![axis] = rate]
    /\ setpointRate' # setpointRate
    /\ Input
    /\ UNCHANGED << gyroADCf, gyroOverflow, rcDeflection, attitude, angleTrim, accSensor, armed, flightModeFlags, motorMixRange, outputSaturated, tpaFactor >>

\* getRcDeflection(axis), written by the rc task
rcDeflectionUpdate(axis, d) ==
    /\ rcDeflection' = [rcDeflection EXCEPT ![axis] = d]
    /\ rcDeflection' # rcDeflection
    /\ Input
    /\ UNCHANGED << gyroADCf, gyroOverflow, setpointRate, attitude, angleTrim, accSensor, armed, flightModeFlags, motorMixRange, outputSaturated, tpaFactor >>

\* attitude.raw[axis], written by the attitude task
attitudeUpdate(axis, decidegrees) ==
    /\ attitude' = [attitude EXCEPT ![axis] = decidegrees]
    /\ attitude' # attitude
    /\ Input
    /\ UNCHANGED << gyroADCf, gyroOverflow, setpointRate, rcDeflection, angleTrim, accSensor, armed, flightModeFlags, motorMixRange, outputSaturated, tpaFactor >>

\* sensors(SENSOR_ACC)
accUpdate(present) ==
    /\ accSensor' = present
    /\ accSensor' # accSensor
    /\ Input
    /\ UNCHANGED << gyroADCf, gyroOverflow, setpointRate, rcDeflection, attitude, angleTrim, armed, flightModeFlags, motorMixRange, outputSaturated, tpaFactor >>

\* ARMING_FLAG(ARMED)
armingUpdate(flag) ==
    /\ armed' = flag
    /\ armed' # armed
    /\ Input
    /\ UNCHANGED << gyroADCf, gyroOverflow, setpointRate, rcDeflection, attitude, angleTrim, accSensor, flightModeFlags, motorMixRange, outputSaturated, tpaFactor >>

\* flightModeFlags
flightModeUpdate(flags) ==
    /\ flightModeFlags' = flags
    /\ flightModeFlags' # flightModeFlags
    /\ Input
    /\ UNCHANGED << gyroADCf, gyroOverflow, setpointRate, rcDeflection, attitude, angleTrim, accSensor, armed, motorMixRange, outputSaturated, tpaFactor >>

\* getMotorMixRange(), written by the mixer
mixerUpdate(range) ==
    /\ motorMixRange' = range
    /\ motorMixRange' # motorMixRange
    /\ Input
    /\ UNCHANGED << gyroADCf, gyroOverflow, setpointRate, rcDeflection, attitude, angleTrim, accSensor, armed, flightModeFlags, outputSaturated, tpaFactor >>

\* mixerIsOutputSaturated(axis, errorRate)
saturationUpdate(axis, flag) ==
    /\ outputSaturated' = [outputSaturated EXCEPT ![axis] = flag]
    /\ outputSaturated' # outputSaturated
    /\ Input
    /\ UNCHANGED << gyroADCf, gyroOverflow, setpointRate, rcDeflection, attitude, angleTrim, accSensor, armed, flightModeFlags, motorMixRange, tpaFactor >>

\* getThrottlePIDAttenuation()
tpaUpdate(factor) ==
    /\ tpaFactor' = factor
    /\ tpaFactor' # tpaFactor
    /\ Input
    /\ UNCHANGED << gyroADCf, gyroOverflow, setpointRate, rcDeflection, attitude, angleTrim, accSensor, armed, flightModeFlags, motorMixRange, outputSaturated >>

\* ------------------------------------------------------------ the other entry points
Called(op) ==
    /\ lastOp' = op
    /\ tick' = NoTick
    /\ UNCHANGED << envVars, watch >>

\* The configuration layer rewrites crash_recovery in the profile that the
\* caller passes to pidController (pidProfile->crash_recovery, lines 459, 528);
\* no static of pidInitConfig depends on it.
crashRecoveryUpdate(r) ==
    /\ pidProfile' = [ pidProfile EXCEPT !.crash_recovery = r ]
    /\ pidProfile' # pidProfile
    /\ Called("other")
    /\ UNCHANGED << filterVars, targetPidLooptime, cfg, pidStabilisationEnabled, itermAccelerator,
                    inCrashRecoveryMode, crashDetectedAtUs, previousTimeUs,
                    previousRateError, previousSetpoint,
                    axisPID_P, axisPID_I, axisPID_D, axisPIDSum, beeper >>

\* mutant of pidResetITerm: only the roll axis is reset
pidResetITerm_RollOnly ==
    /\ axisPID_I' = [axisPID_I EXCEPT ![FD_ROLL] = 0]
    /\ Called("pidResetITerm")
    /\ UNCHANGED << filterVars, pidProfile, targetPidLooptime, cfg, pidStabilisationEnabled,
                    itermAccelerator, inCrashRecoveryMode, crashDetectedAtUs,
                    previousTimeUs, previousRateError, previousSetpoint,
                    axisPID_P, axisPID_D, axisPIDSum, beeper >>

pidResetITerm ==
    /\ axisPID_I' = [axis \in Axes |-> 0]
    /\ Called("pidResetITerm")
    /\ UNCHANGED << filterVars, pidProfile, targetPidLooptime, cfg, pidStabilisationEnabled,
                    itermAccelerator, inCrashRecoveryMode, crashDetectedAtUs,
                    previousTimeUs, previousRateError, previousSetpoint,
                    axisPID_P, axisPID_D, axisPIDSum, beeper >>

pidSetItermAccelerator(newItermAccelerator) ==
    /\ itermAccelerator' = newItermAccelerator
    /\ itermAccelerator' # itermAccelerator
    /\ Called("other")
    /\ UNCHANGED << filterVars, pidProfile, targetPidLooptime, cfg, pidStabilisationEnabled,
                    inCrashRecoveryMode, crashDetectedAtUs, previousTimeUs,
                    previousRateError, previousSetpoint,
                    axisPID_P, axisPID_I, axisPID_D, axisPIDSum, beeper >>

\* pidStabilisationState(PID_STABILISATION_ON / OFF)
pidStabilisationState(on) ==
    /\ pidStabilisationEnabled' = on
    /\ pidStabilisationEnabled' # pidStabilisationEnabled
    /\ Called("other")
    /\ UNCHANGED << filterVars, pidProfile, targetPidLooptime, cfg, itermAccelerator,
                    inCrashRecoveryMode, crashDetectedAtUs, previousTimeUs,
                    previousRateError, previousSetpoint,
                    axisPID_P, axisPID_I, axisPID_D, axisPIDSum, beeper >>

\* pidInit(pidProfile), with gyro.targetLooptime * pid_process_denom = looptime:
\* pidSetTargetLooptime, pidInitFilters, pidInitConfig
pidInit(looptime) ==
    /\ targetPidLooptime' = looptime
    /\ dtermNotchFilterApplyFn' = pidInitFilters(pidProfile, looptime).dtermNotch
    /\ dtermLpfApplyFn' = pidInitFilters(pidProfile, looptime).dtermLpf
    /\ ptermYawFilterApplyFn' = pidInitFilters(pidProfile, looptime).ptermYaw
    /\ cfg' = pidInitConfig(pidProfile, looptime)
    /\ Called("pidInit")
    /\ UNCHANGED << pidProfile, pidStabilisationEnabled, itermAccelerator,
                    inCrashRecoveryMode, crashDetectedAtUs, previousTimeUs,
                    previousRateError, previousSetpoint,
                    axisPID_P, axisPID_I, axisPID_D, axisPIDSum, beeper >>

\* The configuration layer rewrites a filter setting of the profile; pid.c
\* takes it up at the next pidInit.
filterProfileUpdate(field, value) ==
    /\ pidProfile' = [ pidProfile EXCEPT ![field] = value ]
    /\ pidProfile' # pidProfile
    /\ Called("other")
    /\ UNCHANGED << filterVars, targetPidLooptime, cfg, pidStabilisationEnabled,
                    itermAccelerator, inCrashRecoveryMode, crashDetectedAtUs,
                    previousTimeUs, previousRateError, previousSetpoint,
                    axisPID_P, axisPID_I, axisPID_D, axisPIDSum, beeper >>

\* ------------------------------------------------------------ construction
\* gyro.targetLooptime * pid_process_denom: a 1 kHz pid loop
LooptimeUs == 1000

\* After pidInit(p): statics zeroed by the C runtime, stabilisation switched on
\* by the caller, the craft at rest.
InitWith(p) ==
    /\ pidProfile = p
    /\ targetPidLooptime = LooptimeUs
    /\ cfg = pidInitConfig(p, LooptimeUs)
    /\ dtermNotchFilterApplyFn = pidInitFilters(p, LooptimeUs).dtermNotch
    /\ dtermLpfApplyFn = pidInitFilters(p, LooptimeUs).dtermLpf
    /\ ptermYawFilterApplyFn = pidInitFilters(p, LooptimeUs).ptermYaw
    /\ pidStabilisationEnabled = TRUE
    /\ itermAccelerator = 1
    /\ inCrashRecoveryMode = FALSE
    /\ crashDetectedAtUs = 0
    /\ previousTimeUs = 0
    /\ previousRateError = [a \in RollPitch |-> 0]
    /\ previousSetpoint = ZeroAxes
    /\ axisPID_P = ZeroAxes
    /\ axisPID_I = ZeroAxes
    /\ axisPID_D = ZeroAxes
    /\ axisPIDSum = ZeroAxes
    /\ beeper = FALSE
    /\ gyroADCf = ZeroAxes
    /\ gyroOverflow = FALSE
    /\ setpointRate = ZeroAxes
    /\ rcDeflection = ZeroAxes
    /\ attitude = [a \in RollPitch |-> 0]
    /\ angleTrim = [a \in RollPitch |-> 0]
    /\ accSensor = TRUE
    /\ armed = TRUE
    /\ flightModeFlags = {}
    /\ motorMixRange = 0
    /\ outputSaturated = [a \in Axes |-> FALSE]
    /\ tpaFactor = 1
    /\ lastOp = "other"
    /\ tick = NoTick
    /\ watch = [ on |-> FALSE, at |-> 0, ticks |-> 0 ]

\* ------------------------------------------------------------ crash recovery
\* The crash state machine: the integral gains are off, the inputs are the
\* ones the state machine reads.
BigRate == 4
TiltedDeciDegrees == 200
GainsOff == [ BaseProfile EXCEPT !.P = ZeroAxes, !.I = ZeroAxes, !.D = ZeroAxes ]
MaxCrashDelayMs == 1

\* pidInit with a profile whose crash_delay is 0 .. MaxCrashDelayMs ms
InitCrash ==
    \E d \in 0..MaxCrashDelayMs : InitWith([ GainsOff EXCEPT !.crash_delay = d ])

NextCrash ==
    \/ Tick
    \/ \E r \in { PID_CRASH_RECOVERY_OFF, PID_CRASH_RECOVERY_BEEP } : crashRecoveryUpdate(r)
    \/ \E a \in RollPitch, r \in { 0, BigRate } : gyroUpdate(a, r)
    \/ \E r \in { 0, BigRate } : setpointUpdate(FD_ROLL, r)
    \/ \E d \in { 0, TiltedDeciDegrees } : attitudeUpdate(FD_ROLL, d)
    \/ \E f \in BOOLEAN : gyroOverflowUpdate(f)
    \/ \E f \in BOOLEAN : accUpdate(f)
    \/ \E f \in BOOLEAN : armingUpdate(f)
    \/ \E m \in { 0, 1 } : mixerUpdate(m)

SpecCrash == InitCrash /\ [][NextCrash]_vars

\* ------------------------------------------------------------ crash recovery: claims
TickDone == lastOp = "pidController"
SinceEntry == tick.now - tick.startDetectedAt
EnteredInTick == \E a \in Axes : tick.entered[a]

\* C1: the crash state goes from Normal to Recovering in a tick only if the
\* feature is enabled in the profile, no gyro overflow is detected, the motors
\* are armed, the mix is fully saturated and, on one roll or pitch axis, the
\* derivative exceeds crashDtermThreshold, the rate error exceeds
\* crashGyroThreshold and the setpoint is below crashSetpointThreshold; the
\* entry timestamp is then the tick's current time.
C1_EntryOnlyOnCrashSignature ==
    (TickDone /\ ~tick.startCrash /\ inCrashRecoveryMode) =>
        /\ pidProfile.crash_recovery # PID_CRASH_RECOVERY_OFF
        /\ ~gyroOverflow
        /\ armed
        /\ motorMixRange >= 1
        /\ \E a \in RollPitch :
              /\ ABS(tick.delta[a]) > cfg.crashDtermThreshold
              /\ ABS(tick.errorRate[a]) > cfg.crashGyroThreshold
              /\ ABS(setpointRate[a]) < cfg.crashSetpointThreshold
        /\ crashDetectedAtUs = tick.now

C1_Witness ==
    /\ TickDone /\ ~tick.startCrash /\ inCrashRecoveryMode
    /\ tick.entered[FD_PITCH] /\ setpointRate[FD_ROLL] # 0

\* C2: a tick in which gyro overflow is detected never ends with the crash
\* state Recovering, whatever the state was before the tick.
C2_OverflowNeverRecovering ==
    (TickDone /\ gyroOverflow) => ~inCrashRecoveryMode

\* C3: a tick that starts in Recovering with the motors disarmed ends in
\* Normal, whatever the gyro overflow flag, the profile's crash_recovery, the
\* elapsed time, the attitude, the rates and the saturation are.
C3_DisarmExits ==
    (TickDone /\ tick.startCrash /\ ~armed) => ~inCrashRecoveryMode

\* C4 as stated: a tick that starts in Recovering with the time since entry
\* above the crash time limit and above the grace delay ends in Normal, with
\* or without an attitude sensor and whatever the attitude is.
C4_HardTimeLimit ==
    ( /\ TickDone /\ tick.startCrash
      /\ SinceEntry > cfg.crashTimeLimitUs
      /\ SinceEntry > cfg.crashTimeDelayUs ) => ~inCrashRecoveryMode

\* C4 as amended: such a tick ends the recovery it started in when there is no
\* attitude sensor or the aircraft is nearly level: it ends in Normal, or in a
\* recovery entered anew in this very tick (entry timestamp = current time).
C4_TimeLimitWhenLevelOrNoSensor ==
    ( /\ TickDone /\ tick.startCrash
      /\ SinceEntry > cfg.crashTimeLimitUs
      /\ SinceEntry > cfg.crashTimeDelayUs
      /\ (~accSensor \/ nearlyLevel) ) =>
        \/ ~inCrashRecoveryMode
        \/ EnteredInTick /\ crashDetectedAtUs = tick.now

\* the limit alone ends the recovery: the mix is still saturated
C4_Witness ==
    /\ TickDone /\ tick.startCrash
    /\ SinceEntry > cfg.crashTimeLimitUs
    /\ SinceEntry > cfg.crashTimeDelayUs
    /\ accSensor /\ nearlyLevel /\ motorMixRange >= 1
    /\ ~inCrashRecoveryMode

\* C5 as stated: from the entry tick on, while the motors stay armed and the
\* exit condition has not been met (and the time limit not reached), every
\* tick ends in Recovering; the first tick that meets the exit condition
\* before the time limit ends in Normal; for every grace delay.
C5_ExitExact ==
    /\ (TickDone /\ watch.on) => inCrashRecoveryMode
    /\ ( /\ TickDone /\ tick.startWatch /\ armed /\ ExitCondition
         /\ tick.now - tick.startWatchAt < cfg.crashTimeLimitUs ) => ~inCrashRecoveryMode

\* C5 as amended: the same, for a grace delay of zero.
C5_ExitExactWithoutDelay ==
    cfg.crashTimeDelayUs = 0 => C5_ExitExact

\* Recovering held through the entry tick and the next, Normal at the third
C5_Witness ==
    /\ cfg.crashTimeDelayUs = 0
    /\ TickDone /\ tick.startWatch /\ armed /\ ExitCondition
    /\ tick.now - tick.startWatchAt < cfg.crashTimeLimitUs
    /\ tick.startWatchTicks >= 1
    /\ tick.startCrash /\ ~inCrashRecoveryMode

\* C6: at the end of every tick, the alert is on only if the crash state is
\* Recovering and the time since entry exceeds the grace delay.
C6_AlertOnlyPastGrace ==
    (TickDone /\ beeper) =>
        /\ inCrashRecoveryMode
        /\ cmpTimeUs(tick.now, crashDetectedAtUs) > cfg.crashTimeDelayUs

\* alert on in a tick that found the recovery past a non-zero grace delay
C6_Witness ==
    /\ TickDone /\ beeper /\ cfg.crashTimeDelayUs > 0 /\ inCrashRecoveryMode

\* ------------------------------------------------------------ the integral
\* The I component: roll and yaw rate errors of either sign, the mixer's
\* saturation verdicts, resets and stabilisation changes.
InitIterm == InitWith(BaseProfile)

NextIterm ==
    \/ Tick
    \/ pidResetITerm
    \/ \E on \in BOOLEAN : pidStabilisationState(on)
    \/ \E r \in { -BigRate, 0, BigRate } : setpointUpdate(FD_ROLL, r)
    \/ \E r \in { 0, BigRate } : setpointUpdate(FD_YAW, r)
    \/ \E a \in { FD_ROLL, FD_YAW }, f \in BOOLEAN : saturationUpdate(a, f)
    \/ \E m \in { 0, 1 } : mixerUpdate(m)

SpecIterm == InitIterm /\ [][NextIterm]_vars

\* C7: at the end of every tick the magnitude of axisPID_I[axis] is at most
\* itermLimit, for every axis.
C7_ItermWithinLimit ==
    TickDone => \A a \in Axes : ABS(axisPID_I[a]) <= cfg.itermLimit

\* the sum of the old value and the increment is beyond the limit
C7_Witness ==
    /\ TickDone /\ ~outputSaturated[FD_ROLL] /\ motorMixRange = 0
    /\ pidStabilisationEnabled
    /\ tick.startI[FD_ROLL] > 0 /\ tick.errorRate[FD_ROLL] > 0
    /\ tick.startI[FD_ROLL] + tick.errorRate[FD_ROLL] > cfg.itermLimit
    /\ axisPID_I[FD_ROLL] = cfg.itermLimit

\* C8: in a tick in which the mixer reports the output saturated for an axis,
\* the magnitude of that axis's I component does not grow; and with the
\* motor mix range at 1.0 a positive I with a positive error does not grow.
C8_AntiWindup ==
    TickDone => \A a \in Axes :
        /\ outputSaturated[a] => ABS(axisPID_I[a]) <= ABS(tick.startI[a])
        /\ (motorMixRange >= 1 /\ tick.startI[a] > 0 /\ tick.errorRate[a] > 0)
              => axisPID_I[a] <= tick.startI[a]

\* held below the limit by the saturation alone
C8_Witness ==
    /\ TickDone /\ outputSaturated[FD_ROLL] /\ motorMixRange = 0
    /\ pidStabilisationEnabled
    /\ tick.startI[FD_ROLL] > 0 /\ tick.errorRate[FD_ROLL] > 0
    /\ tick.startI[FD_ROLL] < cfg.itermLimit
    /\ axisPID_I[FD_ROLL] = tick.startI[FD_ROLL]

\* ------------------------------------------------------------ the acceleration limit
\* rateAccelLimit and yawRateAccelLimit in the profile, in 0 .. MaxAccelLimit
\* steps of AccelStep (maxVelocity = limit * 100 * dT)
AccelStep == 10
MaxAccelLimit == 2
IntegralOff == [ BaseProfile EXCEPT !.I = ZeroAxes ]

InitAccel ==
    \E r, y \in 0..MaxAccelLimit :
        InitWith([ IntegralOff EXCEPT !.rateAccelLimit = r * AccelStep,
                                      !.yawRateAccelLimit = y * AccelStep ])

NextAccel ==
    \/ Tick
    \/ \E a \in { FD_ROLL, FD_YAW }, r \in { -BigRate, 0, BigRate } : setpointUpdate(a, r)

SpecAccel == InitAccel /\ [][NextAccel]_vars

\* C9: on an axis whose maxVelocity is not zero, the setpoint accepted in a
\* tick differs from the one accepted in the tick before by at most
\* maxVelocity[axis], and it is the one stored for the next tick.
C9_AccelerationLimited ==
    TickDone => \A a \in Axes :
        cfg.maxVelocity[a] # 0 =>
            /\ ABS(tick.accepted[a] - tick.startPreviousSetpoint[a]) <= cfg.maxVelocity[a]
            /\ previousSetpoint[a] = tick.accepted[a]

\* a falling setpoint, cut to the step
C9_Witness ==
    /\ TickDone /\ cfg.maxVelocity[FD_ROLL] # 0
    /\ setpointRate[FD_ROLL] < tick.startPreviousSetpoint[FD_ROLL] - cfg.maxVelocity[FD_ROLL]
    /\ tick.accepted[FD_ROLL] = tick.startPreviousSetpoint[FD_ROLL] - cfg.maxVelocity[FD_ROLL]

\* ------------------------------------------------------------ the outputs
\* P, I, D and Sum under stabilisation changes and gyro overflow, with the
\* crash recovery enabled.
InitOutputs ==
    InitWith([ BaseProfile EXCEPT !.crash_recovery = PID_CRASH_RECOVERY_ON ])

NextOutputs ==
    \/ Tick
    \/ \E on \in BOOLEAN : pidStabilisationState(on)
    \/ \E f \in BOOLEAN : gyroOverflowUpdate(f)
    \/ \E r \in { 0, BigRate } : gyroUpdate(FD_ROLL, r)
    \/ \E r \in { 0, BigRate } : setpointUpdate(FD_YAW, r)
    \/ \E m \in { 0, 1 } : mixerUpdate(m)

SpecOutputs == InitOutputs /\ [][NextOutputs]_vars

\* C10: a tick with stabilisation disabled or a gyro overflow ends with P, I,
\* D and Sum zero on all three axes.
C10_DisabledZeroesOutputs ==
    (TickDone /\ (~pidStabilisationEnabled \/ gyroOverflow)) =>
        \A a \in Axes : /\ axisPID_P[a] = 0 /\ axisPID_I[a] = 0
                        /\ axisPID_D[a] = 0 /\ axisPIDSum[a] = 0

\* a gyro overflow in recovery, with an integral and a rate error at hand
C10_Witness ==
    /\ TickDone /\ gyroOverflow /\ pidStabilisationEnabled
    /\ tick.startCrash /\ tick.startI[FD_YAW] # 0 /\ gyroADCf[FD_ROLL] # 0

\* ------------------------------------------------------------ the filter chain
\* pidInit under loop times 0, 1/64 s and 1/32 s, with the filter settings of
\* the profile in 0 .. MaxFilterHzSteps steps of FilterHzStep Hz.
FilterHzStep == 16
MaxFilterHzSteps == 3
FilterHz == { k * FilterHzStep : k \in 0..MaxFilterHzSteps }
PidLooptimes == { 0, 15625, 31250 }
FilterTypes == { "FILTER_PT1", "FILTER_BIQUAD", "FILTER_FIR", "FILTER_NONE" }

InitFilters == InitWith(BaseProfile)

NextFilters ==
    \/ \E t \in PidLooptimes : pidInit(t)
    \/ \E f \in { "dterm_lpf_hz", "yaw_lpf_hz", "dterm_notch_hz", "dterm_notch_cutoff" },
          hz \in FilterHz : filterProfileUpdate(f, hz)
    \/ \E t \in FilterTypes : filterProfileUpdate("dterm_filter_type", t)

SpecFilters == InitFilters /\ [][NextFilters]_vars

\* hz is at or above the Nyquist frequency 0.5 / dT
AtOrAboveNyquist(hz) == 2 * hz * dTUs(targetPidLooptime) >= UsPerSecond

\* C11: after pidInitFilters, with a non-zero loop time the D term low-pass is
\* the identity when dterm_lpf_hz is at or above the Nyquist frequency, the yaw
\* P term low-pass is the identity when yaw_lpf_hz is, and the D term notch is
\* the identity when dterm_notch_cutoff is; with loop time zero the three
\* stages are the identity.
C11_NoStageAtOrAboveNyquist ==
    lastOp = "pidInit" =>
        IF targetPidLooptime = 0
        THEN /\ dtermNotchFilterApplyFn = "nullFilterApply"
             /\ dtermLpfApplyFn = "nullFilterApply"
             /\ ptermYawFilterApplyFn = "nullFilterApply"
        ELSE /\ AtOrAboveNyquist(pidProfile.dterm_lpf_hz)
                    => dtermLpfApplyFn = "nullFilterApply"
             /\ AtOrAboveNyquist(pidProfile.yaw_lpf_hz)
                    => ptermYawFilterApplyFn = "nullFilterApply"
             /\ AtOrAboveNyquist(pidProfile.dterm_notch_cutoff)
                    => dtermNotchFilterApplyFn = "nullFilterApply"

\* ------------------------------------------------------------ the integral in recovery
\* Crash recovery with the integral gains on: a roll rate that triggers and
\* sustains the recovery, a yaw setpoint that feeds the yaw integral, the mix
\* range, the mixer's saturation verdict on yaw, stabilisation changes.
InitRecoveryIterm ==
    InitWith([ BaseProfile EXCEPT !.crash_recovery = PID_CRASH_RECOVERY_BEEP ])

NextRecoveryIterm ==
    \/ Tick
    \/ \E on \in BOOLEAN : pidStabilisationState(on)
    \/ \E r \in { 0, BigRate } : gyroUpdate(FD_ROLL, r)
    \/ \E r \in { 0, BigRate } : setpointUpdate(FD_YAW, r)
    \/ \E f \in BOOLEAN : saturationUpdate(FD_YAW, f)
    \/ \E m \in { 0, 1 } : mixerUpdate(m)

SpecRecoveryIterm == InitRecoveryIterm /\ [][NextRecoveryIterm]_vars

\* the I component one pass accumulates from zero
ITermFromZero(axis) ==
    constrainf(Quot(cfg.Ki[axis] * tick.errorRate[axis] * dynCi, UsPerSecond),
               -cfg.itermLimit, cfg.itermLimit)

\* C12 as stated: an axis processed in a tick while the crash state is
\* Recovering and the grace delay has passed has axisPID_I[axis] zero when the
\* tick ends.
C12_ItermZeroInRecovery ==
    TickDone => \A a \in Axes : tick.recovering[a] => axisPID_I[a] = 0

\* C12 as amended: for such an axis the accumulated error is reset before the
\* I component is computed: at the end of the tick axisPID_I[axis] is what
\* this one pass accumulates from zero (Ki * errorRate * dynCi, within the
\* limit), whatever it was before, and zero when the output is saturated or
\* the PID outputs are disabled.
C12_ItermRestartsInRecovery ==
    TickDone => \A a \in Axes : tick.recovering[a] =>
        axisPID_I[a] = IF pidDisabled \/ outputSaturated[a] THEN 0 ELSE ITermFromZero(a)

\* a yaw integral at hand when the pass starts, another one when it ends
C12_Witness ==
    /\ TickDone /\ tick.recovering[FD_YAW] /\ ~pidDisabled
    /\ tick.startI[FD_YAW] # 0 /\ axisPID_I[FD_YAW] # 0
    /\ axisPID_I[FD_YAW] # tick.startI[FD_YAW]

\* ------------------------------------------------------------ the running state
\* The per-axis running state under resets and stabilisation changes: the
\* acceleration limit is on for the three axes, the roll setpoint and the
\* pitch rate move.
InitRunningState ==
    InitWith([ BaseProfile EXCEPT !.rateAccelLimit = AccelStep,
                                  !.yawRateAccelLimit = AccelStep ])

NextRunningState ==
    \/ Tick
    \/ pidResetITerm
    \/ \E on \in BOOLEAN : pidStabilisationState(on)
    \/ \E r \in { 0, BigRate } : setpointUpdate(FD_ROLL, r)
    \/ \E r \in { 0, BigRate } : gyroUpdate(FD_PITCH, r)

SpecRunningState == InitRunningState /\ [][NextRunningState]_vars

AfterDisabledTick == TickDone /\ ~pidStabilisationEnabled
AfterReset == lastOp = "pidResetITerm"

\* C13 as stated: after a tick run with stabilisation disabled and after
\* pidResetITerm, the integral accumulator, the previous rate error and the
\* previous accepted setpoint are zero for every axis.
C13_RunningStateReset ==
    (AfterDisabledTick \/ AfterReset) =>
        /\ \A a \in Axes : axisPID_I[a] = 0 /\ previousSetpoint[a] = 0
        /\ \A a \in RollPitch : previousRateError[a] = 0

\* C13 as amended: after a tick run with stabilisation disabled and after
\* pidResetITerm the integral accumulator is zero for every axis; the previous
\* rate error and the previous accepted setpoint are not reset: after a tick
\* with stabilisation disabled they are the rate error (with
\* dtermSetpointWeight 0, minus the gyro rate) and the setpoint accepted in
\* that tick.
C13_OnlyIntegralReset ==
    /\ (AfterDisabledTick \/ AfterReset) => \A a \in Axes : axisPID_I[a] = 0
    /\ (AfterDisabledTick /\ cfg.dtermSetpointWeight = 0) =>
          \A a \in RollPitch : previousRateError[a] = -gyroADCf[a]
    /\ AfterDisabledTick =>
          \A a \in Axes : cfg.maxVelocity[a] # 0 => previousSetpoint[a] = tick.accepted[a]

\* a disabled tick that found an integral, and leaves the rest behind
C13_Witness ==
    /\ AfterDisabledTick
    /\ tick.startI[FD_ROLL] # 0 /\ tick.startI[FD_PITCH] # 0
    /\ previousRateError[FD_PITCH] # 0 /\ previousSetpoint[FD_ROLL] # 0

\* ------------------------------------------------------------ leveling
\* pidLevel under the flight modes: level P and I gains of the profile in
\* 1 .. MaxLevelGain steps of 10 (levelGain = P / 10, horizonGain = I / 10),
\* the limited and the expert sub-mode, the roll stick, the roll attitude
\* below and beyond levelAngleLimit, the roll rate setpoint.
MaxLevelGain == 2
LevelGains == { k * 10 : k \in 1..MaxLevelGain }

InitLevel ==
    \E p, i \in LevelGains, expert \in BOOLEAN :
        InitWith([ GainsOff EXCEPT !.levelP = p, !.levelI = i,
                                   !.horizon_tilt_expert_mode = expert ])

NextLevel ==
    \/ Tick
    \/ \E flags \in { {}, {"ANGLE"}, {"HORIZON"} } : flightModeUpdate(flags)
    \/ \E d \in { -1, 0, 1 } : rcDeflectionUpdate(FD_ROLL, d)
    \/ \E k \in 0..2 : attitudeUpdate(FD_ROLL, k * TiltedDeciDegrees)
    \/ \E r \in { 0, BigRate } : setpointUpdate(FD_ROLL, r)

SpecLevel == InitLevel /\ [][NextLevel]_vars

\* the limited sub-mode of horizon, the inclination below levelAngleLimit
LimitedBelowLimit ==
    /\ flightModeFlags = {"HORIZON"}
    /\ ~cfg.horizonTiltExpertMode
    /\ MAX(ABS(attitude[FD_ROLL]), ABS(attitude[FD_PITCH])) < pidProfile.levelAngleLimit * 10

\* C14: in a tick in the limited sub-mode of horizon (expert mode off, angle
\* mode not active) with the inclination below levelAngleLimit, the setpoint
\* pidLevel returns for the levelled axis is the one it returns in angle mode
\* for the same stick deflection, attitude, trims and profile, whatever the
\* raw rate setpoint and whatever the level P and I gains are.
C14_LimitedLikeAngleMode ==
    (TickDone /\ LimitedBelowLimit) =>
        tick.levelled[FD_ROLL] = pidLevelIn({"ANGLE"}, FD_ROLL, tick.accepted[FD_ROLL])

====
